---- MODULE Spec2Model ----
(***************************************************************************)
(* State-machine model of the three batch programs of the repository:      *)
(*   generate_game_overview.py  (parse_games, group_into_matches,          *)
(*                               calculate_stats)                          *)
(*   2createwikicode.py         (load_match_metadata, main's grouping      *)
(*                               loop, generate_wiki_for_series)           *)
(*   generate_stats_for_wiki.py (process_file, generate_wiki_table)        *)
(*                                                                         *)
(* A JSON object is a TLA+ record whose DOMAIN is the set of keys present, *)
(* so dict.get(key, default) is Get(d, key, default).  A JSON value that   *)
(* is not an object where the code calls .get on it is the record          *)
(* [notdict |-> TRUE]; a file that cannot be read or is not JSON is        *)
(* [invalid |-> TRUE].  A string the code lower-cases, strips or sorts is  *)
(* a tuple of one-character strings.  Time is in seconds.                  *)
(***************************************************************************)
EXTENDS Integers, Sequences, FiniteSets, TLC

VARIABLES
    dir_found,      \* whether the target directory exists
    files,          \* the JSON documents of the input directory, in glob order
    maps_config,    \* generate_stats_for_wiki: load_maps_config()
    pc,             \* position of the running program
    fi,             \* index of the next file to load
    valid_games,    \* generate_game_overview: parse_games' valid_games
    gi,             \* generate_game_overview: index of the next game to group
    active_series,  \* generate_game_overview: dict pair_key -> match, in insertion order
    matches,        \* generate_game_overview: group_into_matches' matches
    overview_stats, \* generate_game_overview: calculate_stats' result
    all_matches,    \* 2createwikicode: main's all_matches
    wi,             \* 2createwikicode: loop index i of the grouping loop
    current_series, \* 2createwikicode: main's current_series
    series_list,    \* 2createwikicode: main's series_list
    wiki_out,       \* 2createwikicode: what generate_wiki_for_series reports, per series
    players_db,     \* generate_stats_for_wiki: main's players_db
    report          \* the report file the program wrote (NoReport: none)

vars == <<dir_found, files, maps_config, pc, fi, valid_games, gi, active_series, matches,
          overview_stats, all_matches, wi, current_series, series_list,
          wiki_out, players_db, report>>

(***************************************************************************)
(* Bounds of the model.                                                    *)
(***************************************************************************)
MaxFiles == 3

(***************************************************************************)
(* Python strings, dicts and sorting.                                      *)
(***************************************************************************)
Get(d, k, default) == IF k \in DOMAIN d THEN d[k] ELSE default

IsDict(v) == "notdict" \notin DOMAIN v

\* {}
EmptyDict == [k \in {} |-> 0]

\* ord(c) for the characters the inputs use
Ord(c) ==
    CASE c = " " -> 32
      [] c = "A" -> 65
      [] c = "B" -> 66
      [] c = "S" -> 83
      [] c = "a" -> 97
      [] c = "b" -> 98
      [] c = "c" -> 99
      [] c = "e" -> 101
      [] c = "k" -> 107
      [] c = "n" -> 110
      [] c = "o" -> 111
      [] c = "p" -> 112
      [] c = "r" -> 114
      [] c = "s" -> 115
      [] c = "t" -> 116
      [] c = "U" -> 85
      [] c = "u" -> 117
      [] c = "w" -> 119

LowerChar(c) ==
    CASE c = "A" -> "a"
      [] c = "B" -> "b"
      [] c = "S" -> "s"
      [] c = "U" -> "u"
      [] c = "D" -> "d"
      [] c = "M" -> "m"
      [] OTHER -> c

\* str.lower()
Lower(s) == [i \in 1..Len(s) |-> LowerChar(s[i])]

\* str.strip()
Strip(s) ==
    LET ink == {i \in 1..Len(s) : s[i] # " "}
    IN  IF ink = {} THEN <<>>
        ELSE LET lo == CHOOSE i \in ink : \A j \in ink : i <= j
                 hi == CHOOSE i \in ink : \A j \in ink : j <= i
             IN  SubSeq(s, lo, hi)

\* Python's < on str: lexicographic by code point
RECURSIVE StrLess(_, _)
StrLess(s, t) ==
    IF t = <<>> THEN FALSE
    ELSE IF s = <<>> THEN TRUE
    ELSE IF Ord(Head(s)) # Ord(Head(t)) THEN Ord(Head(s)) < Ord(Head(t))
    ELSE StrLess(Tail(s), Tail(t))

\* SortByInt that turns the list round
SortByInt_Reversed(s, key) == [k \in 1..Len(s) |-> s[Len(s) + 1 - k]]

\* SortByInt that leaves the list in the order it was built in
SortByInt_KeepsOrder(s, key) == s

\* list.sort(key=...) with integer keys: stable, ascending; key[i] is the
\* key of s[i]
SortByInt(s, key) ==
    LET n == Len(s)
        pos(i) == Cardinality({j \in 1..n :
                      key[j] < key[i] \/ (key[j] = key[i] /\ j < i)}) + 1
    IN  [k \in 1..n |-> s[CHOOSE i \in 1..n : pos(i) = k]]

\* list.sort(key=...) / sorted() with string keys: stable, ascending
SortByStr(s, key) ==
    LET n == Len(s)
        pos(i) == Cardinality({j \in 1..n :
                      StrLess(key[j], key[i]) \/ (key[j] = key[i] /\ j < i)}) + 1
    IN  [k \in 1..n |-> s[CHOOSE i \in 1..n : pos(i) = k]]

\* sorted() of a set of distinct strings
SortedStrs(S) ==
    LET n == Cardinality(S)
        pos(x) == Cardinality({y \in S : StrLess(y, x)}) + 1
    IN  [k \in 1..n |-> CHOOSE x \in S : pos(x) = k]

Range(s) == {s[i] : i \in DOMAIN s}

(***************************************************************************)
(* Time.  Timestamps are seconds counted from the evening the games were   *)
(* played; the two default instants of the code lie far before it.        *)
(***************************************************************************)
SERIES_GAP_THRESHOLD_MINUTES == 90
SERIES_GAP_MINUTES == 90

\* datetime.min, and the overview's default date "1970-01-01 00:00:00":
\* both precede every real game by far more than the threshold
DATETIME_MIN == -2000000
EPOCH_1970 == -1000000

\* A "date" is a string that starts with a well-formed 19-character date,
\* [at |-> seconds, tail |-> what follows it]; a string that does not,
\* [garbage |-> TRUE]; or a JSON value that is not a string (null, a
\* number), [notstr |-> TRUE].

\* line 47: date_str[:19] raises TypeError on a value that is not a string,
\* and line 51 catches ValueError only
DateSliceRaises(data) == "notstr" \in DOMAIN Get(data, "date", EmptyDict)

\* datetime.strptime(date_str[:19], ...): a well-formed 19-character prefix
\* parses whatever follows it; a missing date defaults to 1970
ParseDateOverview(data) ==
    LET date_str == Get(data, "date", [at |-> EPOCH_1970, tail |-> ""])
    IN  IF "at" \in DOMAIN date_str THEN date_str.at ELSE DATETIME_MIN

\* parse_date: cut at the first "+", then strptime of the whole rest
parse_date(date_str) ==
    IF "at" \in DOMAIN date_str /\ date_str.tail \in {"", "+"}
    THEN date_str.at
    ELSE DATETIME_MIN

(***************************************************************************)
(* Strings of the inputs.                                                  *)
(***************************************************************************)
sUnknown == <<"U", "n", "k", "n", "o", "w", "n">>
sSpec == <<"s", "p", "e", "c">>
sSpectator == <<"s", "p", "e", "c", "t", "a", "t", "o", "r">>
sSpecUpper == <<"S", "p", "e", "c">>
sSpecPadded == <<"s", "p", "e", "c", " ">>
sA == <<"a">>
sB == <<"b">>
sC == <<"c">>
sUpperA == <<"A">>
sDm3 == <<"d", "m", "3">>
sDm3Upper == <<"D", "M", "3">>
sE1m2 == <<"e", "1", "m", "2">>
sMapUnknown == <<"u", "n", "k", "n", "o", "w", "n">>

RECURSIVE SumSeq(_)
SumSeq(s) == IF s = <<>> THEN 0 ELSE Head(s) + SumSeq(Tail(s))

(***************************************************************************)
(* generate_game_overview.py                                               *)
(***************************************************************************)
\* the test of line 19: lower-cased, not stripped
IsSpectatorTeam(t_name) == Lower(t_name) \in {sSpec, sSpectator, <<>>}

PlayerTeam(p) == Get(p, "team", sUnknown)
PlayerFrags(p) == Get(Get(p, "stats", EmptyDict), "frags", 0)

\* the players get_team_scores counts
ScoringPlayers(players) ==
    SelectSeq(players, LAMBDA p : ~IsSpectatorTeam(PlayerTeam(p)))

get_team_scores(players) ==
    LET kept == ScoringPlayers(players)
        names == {PlayerTeam(kept[i]) : i \in 1..Len(kept)}
        of(t) == SelectSeq(kept, LAMBDA p : PlayerTeam(p) = t)
    IN  [teams |-> [t \in names |->
                      SumSeq([i \in 1..Len(of(t)) |-> PlayerFrags(of(t)[i])])],
         team_rosters |-> [t \in names |->
                      [i \in 1..Len(of(t)) |->
                          [name |-> Get(of(t)[i], "name", "Unknown"),
                           frags |-> PlayerFrags(of(t)[i])]]]]

\* what makes the try block of parse_games raise: the file is not JSON, the
\* date is not a string, a player is not an object, or a counted player's
\* stats is not an object
OverviewRaises(data) ==
    \/ "invalid" \in DOMAIN data
    \/ DateSliceRaises(data)
    \/ LET players == Get(data, "players", <<>>)
       IN  \E i \in 1..Len(players) :
              \/ ~IsDict(players[i])
              \/ /\ ~IsSpectatorTeam(PlayerTeam(players[i]))
                 /\ ~IsDict(Get(players[i], "stats", EmptyDict))

\* one iteration of parse_games' loop: the games it appends (none or one)
OverviewLoad(data, file) ==
    IF OverviewRaises(data) THEN <<>>
    ELSE LET r == get_team_scores(Get(data, "players", <<>>))
         IN  IF Cardinality(DOMAIN r.teams) # 2 THEN <<>>
             ELSE LET st == SortedStrs(DOMAIN r.teams)
                      t1 == st[1]
                      t2 == st[2]
                  IN  <<[date_obj |-> ParseDateOverview(data),
                         team1 |-> t1,
                         team2 |-> t2,
                         server |-> Get(data, "server", Get(data, "hostname", "Unknown")),
                         map |-> Get(data, "map", sMapUnknown),
                         score_t1 |-> r.teams[t1],
                         score_t2 |-> r.teams[t2],
                         roster_t1 |-> r.team_rosters[t1],
                         roster_t2 |-> r.team_rosters[t2],
                         file |-> file]>>

\* create_new_match that opens the series without its first game
create_new_match_DropsGame(first_game) ==
    [team1 |-> first_game.team1,
     team2 |-> first_game.team2,
     start_time |-> first_game.date_obj,
     last_game_time |-> first_game.date_obj,
     server |-> first_game.server,
     maps |-> <<>>]

create_new_match(first_game) ==
    [team1 |-> first_game.team1,
     team2 |-> first_game.team2,
     start_time |-> first_game.date_obj,
     last_game_time |-> first_game.date_obj,
     server |-> first_game.server,
     maps |-> <<first_game>>]

\* line 102: gap_minutes = delta.total_seconds() / 60 against the threshold
GapStartsNewSeries(delta_seconds) ==
    delta_seconds > SERIES_GAP_THRESHOLD_MINUTES * 60

PairKey(g) == <<g.team1, g.team2>>

\* OverviewMapWinner with a drawn map credited to team1
OverviewMapWinner_DrawToOne(game) ==
    IF game.score_t1 >= game.score_t2 THEN 1 ELSE 2

\* lines 152-155: which side a map is credited to (0: neither)
OverviewMapWinner(game) ==
    IF game.score_t1 > game.score_t2 THEN 1
    ELSE IF game.score_t2 > game.score_t1 THEN 2
    ELSE 0

\* MapsWon with a drawn map counted as won by either side
MapsWon_DrawsCounted(m, side) ==
    Cardinality({i \in 1..Len(m.maps) : OverviewMapWinner(m.maps[i]) \in {side, 0}})

\* t1_maps_won / t2_maps_won of one match
MapsWon(m, side) ==
    Cardinality({i \in 1..Len(m.maps) : OverviewMapWinner(m.maps[i]) = side})

\* lines 170-173: which side is credited the series (0: neither)
OverviewSeriesWinner(t1_maps_won, t2_maps_won) ==
    IF t1_maps_won > t2_maps_won THEN 1
    ELSE IF t2_maps_won > t1_maps_won THEN 2
    ELSE 0

calculate_stats(ms) ==
    LET n == Len(ms)
        clans == {ms[i].team1 : i \in 1..n} \cup {ms[i].team2 : i \in 1..n}
        side(i, t) == IF ms[i].team1 = t THEN 1 ELSE IF ms[i].team2 = t THEN 2 ELSE 0
        other(k) == 3 - k
        total(t, f(_, _)) ==
            SumSeq([i \in 1..n |-> IF side(i, t) = 0 THEN 0 ELSE f(i, side(i, t))])
        won(i, k) == MapsWon(ms[i], k)
        lost(i, k) == MapsWon(ms[i], other(k))
        played(i, k) == Len(ms[i].maps)
        one(i, k) == 1
        swon(i, k) ==
            IF OverviewSeriesWinner(MapsWon(ms[i], 1), MapsWon(ms[i], 2)) = k
            THEN 1 ELSE 0
        mapnames == UNION {{Lower(ms[i].maps[j].map) : j \in 1..Len(ms[i].maps)} :
                              i \in 1..n}
    IN  [clan_stats |-> [t \in clans |->
                           [series_played |-> total(t, one),
                            series_won |-> total(t, swon),
                            maps_played |-> total(t, played),
                            maps_won |-> total(t, won),
                            maps_lost |-> total(t, lost)]],
         map_distribution |-> [mp \in mapnames |->
                           SumSeq([i \in 1..n |->
                              Cardinality({j \in 1..Len(ms[i].maps) :
                                              Lower(ms[i].maps[j].map) = mp})])],
         total_series |-> n,
         total_maps |-> SumSeq([i \in 1..n |-> Len(ms[i].maps)])]

\* ---- actions of generate_game_overview.py ----

\* __main__, lines 426-427: the target directory does not exist
OverviewNoDir ==
    /\ pc = "ov_parse"
    /\ ~dir_found
    /\ pc' = "ov_done"
    /\ UNCHANGED <<dir_found, report, files, maps_config, fi, valid_games, gi,
                   active_series, matches, overview_stats, all_matches, wi,
                   current_series, series_list, wiki_out, players_db>>

\* one iteration of the loop of parse_games (lines 40-78)
ParseGamesFile ==
    /\ pc = "ov_parse"
    /\ dir_found
    /\ fi <= Len(files)
    /\ valid_games' = valid_games \o OverviewLoad(files[fi], fi)
    /\ fi' = fi + 1
    /\ UNCHANGED <<dir_found, report, files, maps_config, pc, gi, active_series, matches,
                   overview_stats, all_matches, wi, current_series,
                   series_list, wiki_out, players_db>>

\* the end of parse_games (lines 80-83): the sort, and the return to main
ParseGamesSort ==
    /\ pc = "ov_parse"
    /\ dir_found
    /\ fi > Len(files)
    /\ valid_games' = SortByInt(valid_games,
                          [i \in 1..Len(valid_games) |-> valid_games[i].date_obj])
    /\ pc' = "ov_group"
    /\ gi' = 1
    /\ UNCHANGED <<dir_found, report, files, maps_config, fi, active_series, matches,
                   overview_stats, all_matches, wi, current_series,
                   series_list, wiki_out, players_db>>

ActiveIndex(series, key) ==
    {k \in 1..Len(series) : <<series[k].team1, series[k].team2>> = key}

\* one iteration of the loop of group_into_matches (lines 92-112), on the
\* lists matches and active_series as they stand
GroupOne(ms, act, game) ==
    LET found == ActiveIndex(act, PairKey(game))
    IN  IF found # {}
        THEN LET k == CHOOSE x \in found : TRUE
                 current_match == act[k]
                 delta == game.date_obj - current_match.last_game_time
             IN  IF GapStartsNewSeries(delta)
                 THEN [matches |-> Append(ms, current_match),
                       active_series |-> [act EXCEPT ![k] = create_new_match(game)]]
                 ELSE [matches |-> ms,
                       active_series |->
                          [act EXCEPT
                             ![k] = [current_match EXCEPT
                                       !.maps = Append(@, game),
                                       !.last_game_time = game.date_obj,
                                       !.server = game.server]]]
        ELSE [matches |-> ms,
              active_series |-> Append(act, create_new_match(game))]

\* lines 114-117: the active series are appended, the list is sorted
SealAndSort(ms, act) ==
    LET all == ms \o act
    IN  SortByInt(all, [i \in 1..Len(all) |-> all[i].start_time])

\* one iteration of the loop of group_into_matches (lines 92-112)
GroupGame ==
    /\ pc = "ov_group"
    /\ gi <= Len(valid_games)
    /\ LET r == GroupOne(matches, active_series, valid_games[gi])
       IN  /\ matches' = r.matches
           /\ active_series' = r.active_series
    /\ gi' = gi + 1
    /\ UNCHANGED <<dir_found, report, files, maps_config, pc, fi, valid_games, overview_stats,
                   all_matches, wi, current_series, series_list, wiki_out,
                   players_db>>

\* the end of group_into_matches (lines 114-118): every active series is
\* appended, and the list is sorted by start time
GroupSeal ==
    /\ pc = "ov_group"
    /\ gi > Len(valid_games)
    /\ matches' = SealAndSort(matches, active_series)
    /\ pc' = "ov_stats"
    /\ UNCHANGED <<dir_found, report, files, maps_config, fi, valid_games, gi, active_series,
                   overview_stats, all_matches, wi, current_series,
                   series_list, wiki_out, players_db>>

\* calculate_stats (lines 130-175)
CalculateStats ==
    /\ pc = "ov_stats"
    /\ overview_stats' = calculate_stats(matches)
    /\ pc' = "ov_html"
    /\ UNCHANGED <<dir_found, report, files, maps_config, fi, valid_games, gi, active_series,
                   matches, all_matches, wi, current_series, series_list,
                   wiki_out, players_db>>

\* generate_html (lines 177-417): the page of the matches and of the
\* statistics is written, whatever they hold
GenerateHtml ==
    /\ pc = "ov_html"
    /\ report' = [written |-> TRUE, rows |-> matches, stats |-> overview_stats]
    /\ pc' = "ov_done"
    /\ UNCHANGED <<dir_found, files, maps_config, fi, valid_games, gi,
                   active_series, matches, overview_stats, all_matches, wi,
                   current_series, series_list, wiki_out, players_db>>

(***************************************************************************)
(* 2createwikicode.py                                                      *)
(***************************************************************************)
normalize(name) == Strip(Lower(name))

\* an entry of a document's "teams" list is an object (a record that may
\* carry name and score) or a plain string, [str |-> s]
TeamIsDict(t) == "str" \notin DOMAIN t
sDictRepr == <<"{", "}">>
TeamStr(t) == IF TeamIsDict(t) THEN sDictRepr ELSE t.str

\* lines 56 and 80: t.get("name", str(t)) if isinstance(t, dict) else str(t)
TeamEntryName(t) == IF TeamIsDict(t) THEN Get(t, "name", TeamStr(t)) ELSE TeamStr(t)

\* lines 58 and 82: set(p.get("team", "Unknown") for p in data["players"])
PlayerTeamSet(data) ==
    {Get(data.players[i], "team", sUnknown) : i \in 1..Len(data.players)}

\* what makes the try block of load_match_metadata raise
WikiRaises(data) ==
    \/ "invalid" \in DOMAIN data
    \/ /\ "teams" \notin DOMAIN data
       /\ "players" \in DOMAIN data
       /\ \E i \in 1..Len(data.players) : ~IsDict(data.players[i])

\* lines 54-61: the sorted tuple of normalized team names
WikiTeams(data) ==
    LET teams == IF "teams" \in DOMAIN data
                 THEN [i \in 1..Len(data.teams) |-> TeamEntryName(data.teams[i])]
                 ELSE IF "players" \in DOMAIN data
                 THEN SortedStrs(PlayerTeamSet(data))
                 ELSE <<>>
        teams_clean == [i \in 1..Len(teams) |-> normalize(teams[i])]
    IN  SortByStr(teams_clean, teams_clean)

\* load_match_metadata: the metadata appended to all_matches (none or one)
load_match_metadata(data, path) ==
    IF WikiRaises(data) THEN <<>>
    ELSE <<[path |-> path,
            date |-> parse_date(Get(data, "date", [garbage |-> TRUE])),
            teams |-> WikiTeams(data),
            data |-> data]>>

\* get_team_score, step 1: the explicit scores of the entries named target
ExplicitScores(json_data, target) ==
    IF "teams" \in DOMAIN json_data
    THEN SelectSeq(json_data.teams,
                   LAMBDA team : /\ TeamIsDict(team)
                                 /\ normalize(Get(team, "name", <<>>)) = target
                                 /\ "score" \in DOMAIN team)
    ELSE <<>>

\* get_team_score, step 2: the top-level frags of the players of target
FallbackScore(json_data, target) ==
    IF "players" \in DOMAIN json_data
    THEN LET ps == SelectSeq(json_data.players,
                      LAMBDA q : normalize(Get(q, "team", <<>>)) = target)
         IN  SumSeq([i \in 1..Len(ps) |-> Get(ps[i], "frags", 0)])
    ELSE 0

get_team_score(json_data, team_name) ==
    LET target == normalize(team_name)
        explicit == ExplicitScores(json_data, target)
    IN  IF explicit # <<>> THEN explicit[1].score
        ELSE FallbackScore(json_data, target)

\* WikiMapWinner with a drawn map credited to slot 1
WikiMapWinner_DrawToOne(s1, s2) ==
    IF s1 >= s2 THEN "1" ELSE "2"

\* lines 105-111: the winner tag of a map
WikiMapWinner(s1, s2) ==
    IF s1 > s2 THEN "1" ELSE IF s2 > s1 THEN "2" ELSE ""

\* WikiSeriesWinner with a drawn series defaulting to slot 1
WikiSeriesWinner_DrawToOne(t1_wins, t2_wins) ==
    IF t1_wins >= t2_wins THEN "1" ELSE "2"

\* lines 120-122: the winner tag of a series
WikiSeriesWinner(t1_wins, t2_wins) ==
    IF t1_wins > t2_wins THEN "1" ELSE IF t2_wins > t1_wins THEN "2" ELSE ""

\* lines 78-82: the raw team names of the first map, in the order the list
\* is built: the order of "teams", or any iteration order of the set
RawTeamOrders(first_data) ==
    IF "teams" \in DOMAIN first_data
    THEN {[i \in 1..Len(first_data.teams) |-> TeamEntryName(first_data.teams[i])]}
    ELSE IF "players" \in DOMAIN first_data
    THEN LET S == PlayerTeamSet(first_data)
         IN  {q \in [1..Cardinality(S) -> S] : Range(q) = S}
    ELSE {<<>>}

sTeam1 == <<"T", "e", "a", "m", "1">>
sTeam2 == <<"T", "e", "a", "m", "2">>

\* generate_wiki_for_series, for the list order raw_teams_list was built in
generate_wiki_for_series(series_matches, built) ==
    LET raw_teams_list == SortByStr(built, [i \in 1..Len(built) |-> Lower(built[i])])
        t1_raw == IF Len(raw_teams_list) >= 2 THEN raw_teams_list[1] ELSE sTeam1
        t2_raw == IF Len(raw_teams_list) >= 2 THEN raw_teams_list[2] ELSE sTeam2
        matches_output ==
            [i \in 1..Len(series_matches) |->
                LET data == series_matches[i].data
                    s1 == get_team_score(data, t1_raw)
                    s2 == get_team_score(data, t2_raw)
                IN  [map |-> Get(data, "map", sMapUnknown),
                     s1 |-> s1, s2 |-> s2, win |-> WikiMapWinner(s1, s2)]]
        t1_wins == Cardinality({i \in 1..Len(matches_output) : matches_output[i].win = "1"})
        t2_wins == Cardinality({i \in 1..Len(matches_output) : matches_output[i].win = "2"})
    IN  [player1 |-> t1_raw,
         player2 |-> t2_raw,
         winner |-> WikiSeriesWinner(t1_wins, t2_wins),
         games1 |-> t1_wins,
         games2 |-> t2_wins,
         maps |-> matches_output,
         paths |-> [i \in 1..Len(series_matches) |-> series_matches[i].path]]

\* line 187: whether curr joins the series prev is the last map of
JoinsSeries(prev, curr) ==
    /\ prev.teams = curr.teams
    /\ curr.date - prev.date < SERIES_GAP_MINUTES * 60

\* one iteration of the grouping loop (lines 180-191), on the lists
\* series_list and current_series as they stand
WikiGroupOne(sl, cs, curr) ==
    IF JoinsSeries(cs[Len(cs)], curr)
    THEN [series_list |-> sl, current_series |-> Append(cs, curr)]
    ELSE [series_list |-> Append(sl, cs), current_series |-> <<curr>>]

\* ---- actions of 2createwikicode.py ----

\* main, lines 153-155: the target directory does not exist
WikiNoDir ==
    /\ pc = "wk_load"
    /\ ~dir_found
    /\ pc' = "wk_done"
    /\ UNCHANGED <<dir_found, report, files, maps_config, fi, valid_games, gi,
                   active_series, matches, overview_stats, all_matches, wi,
                   current_series, series_list, wiki_out, players_db>>

\* main, lines 160-164: no file at all
WikiNoFiles ==
    /\ pc = "wk_load"
    /\ dir_found
    /\ Len(files) = 0
    /\ pc' = "wk_done"
    /\ UNCHANGED <<dir_found, report, files, maps_config, fi, valid_games, gi, active_series,
                   matches, overview_stats, all_matches, wi, current_series,
                   series_list, wiki_out, players_db>>

\* one iteration of the loading loop (lines 168-170)
WikiLoadFile ==
    /\ pc = "wk_load"
    /\ fi <= Len(files)
    /\ all_matches' = all_matches \o load_match_metadata(files[fi], fi)
    /\ fi' = fi + 1
    /\ UNCHANGED <<dir_found, report, files, maps_config, pc, valid_games, gi, active_series,
                   matches, overview_stats, wi, current_series, series_list,
                   wiki_out, players_db>>

\* lines 173-178: the sort, and the first map opens the first series
WikiSort ==
    /\ pc = "wk_load"
    /\ Len(files) > 0
    /\ fi > Len(files)
    /\ LET sorted == SortByInt(all_matches,
                               [i \in 1..Len(all_matches) |-> all_matches[i].date])
       IN  /\ all_matches' = sorted
           /\ current_series' = IF sorted # <<>> THEN <<sorted[1]>> ELSE <<>>
    /\ wi' = 2
    /\ pc' = "wk_group"
    /\ UNCHANGED <<dir_found, report, files, maps_config, fi, valid_games, gi, active_series,
                   matches, overview_stats, series_list, wiki_out, players_db>>

\* one iteration of the grouping loop (lines 179-191)
WikiGroupStep ==
    /\ pc = "wk_group"
    /\ wi <= Len(all_matches)
    /\ LET r == WikiGroupOne(series_list, current_series, all_matches[wi])
       IN  /\ series_list' = r.series_list
           /\ current_series' = r.current_series
    /\ wi' = wi + 1
    /\ UNCHANGED <<dir_found, report, files, maps_config, pc, fi, valid_games, gi, active_series,
                   matches, overview_stats, all_matches, wiki_out, players_db>>

\* line 192: the last series is closed (if there was any map at all)
WikiGroupEnd ==
    /\ pc = "wk_group"
    /\ wi > Len(all_matches)
    /\ series_list' = IF all_matches # <<>>
                      THEN Append(series_list, current_series)
                      ELSE series_list
    /\ wi' = 1
    /\ pc' = "wk_output"
    /\ UNCHANGED <<dir_found, report, files, maps_config, fi, valid_games, gi, active_series,
                   matches, overview_stats, all_matches, current_series,
                   wiki_out, players_db>>

\* one iteration of the output loop (lines 196-197)
WikiOutputSeries ==
    /\ pc = "wk_output"
    /\ wi <= Len(series_list)
    /\ \E built \in RawTeamOrders(series_list[wi][1].data) :
          wiki_out' = Append(wiki_out, generate_wiki_for_series(series_list[wi], built))
    /\ wi' = wi + 1
    /\ UNCHANGED <<dir_found, report, files, maps_config, pc, fi, valid_games, gi, active_series,
                   matches, overview_stats, all_matches, current_series,
                   series_list, players_db>>

WikiOutputEnd ==
    /\ pc = "wk_output"
    /\ wi > Len(series_list)
    /\ pc' = "wk_done"
    /\ UNCHANGED <<dir_found, report, files, maps_config, fi, valid_games, gi, active_series,
                   matches, overview_stats, all_matches, wi, current_series,
                   series_list, wiki_out, players_db>>

(***************************************************************************)
(* generate_stats_for_wiki.py                                              *)
(* The per-game ratios are Python floats; here they are exact fractions    *)
(* <<numerator, denominator>> in lowest terms.                             *)
(***************************************************************************)
RECURSIVE Gcd(_, _)
Gcd(a, b) == IF b = 0 THEN a ELSE Gcd(b, a % b)

Abs(x) == IF x < 0 THEN -x ELSE x

\* n / d, d > 0
Frac(n, d) ==
    LET g == Gcd(Abs(n), d)
    IN  IF g = 0 THEN <<0, 1>> ELSE <<n \div g, d \div g>>

FracZero == <<0, 1>>
FracAdd(x, y) == Frac(x[1] * y[2] + y[1] * x[2], x[2] * y[2])

\* safe_div(n, d), n a fraction and d a count
safe_div(n, d) == IF d > 0 THEN Frac(n[1], n[2] * d) ELSE FracZero

ALL_TRACKED_ITEMS ==
    <<"lg", "gl", "sng", "ng", "ssg", "mh", "ra", "ya", "ga", "pent", "ring", "quad">>

QUAKE_COLORS ==
    [tc \in {0, 1, 2, 3, 4, 12, 13} |->
        CASE tc = 0 -> "#D3D3D3" [] tc = 1 -> "#8B4513" [] tc = 2 -> "#D8BFD8"
          [] tc = 3 -> "#008000" [] tc = 4 -> "#8B0000" [] tc = 12 -> "#FFFF00"
          [] tc = 13 -> "#0000FF"]

NoWeapon == [k |-> 0, h |-> 0, t |-> 0, d |-> 0]

get_stats_structure ==
    [games |-> 0,
     opportunities |-> EmptyDict,
     team_color |-> "None",
     frags |-> 0, deaths |-> 0, dmg_given |-> 0, dmg_enemy_weapons |-> 0,
     dmg_to_die |-> 0, speed_sum |-> 0, speed_max_sum |-> 0,
     rl |-> [k |-> 0, h |-> 0, t |-> 0, d |-> 0, xfer |-> 0],
     lg |-> NoWeapon, gl |-> NoWeapon, sng |-> NoWeapon, ng |-> NoWeapon,
     ssg |-> NoWeapon,
     acc_sums |-> [lg |-> FracZero, sg |-> FracZero, eff |-> FracZero],
     acc_counts |-> [lg |-> 0, sg |-> 0, eff |-> 0],
     items |-> [q |-> 0, p |-> 0, r |-> 0, ra |-> 0, ya |-> 0, ga |-> 0, mh |-> 0]]

\* line 79: maps_config.get(map_name, ALL_TRACKED_ITEMS)
AvailableItems(data, config) ==
    Get(config, Lower(Get(data, "map", <<>>)), ALL_TRACKED_ITEMS)

Available(key, available_items) == key \in Range(available_items)

\* get_w(key) of a player's "weapons"
get_w(weap, key) ==
    LET w == Get(weap, key, EmptyDict)
        pickups == Get(w, "pickups", EmptyDict)
    IN  [k |-> Get(Get(w, "kills", EmptyDict), "enemy", 0),
         h |-> Get(Get(w, "acc", EmptyDict), "hits", 0),
         t |-> Get(pickups, "total-taken", 0),
         d |-> Get(pickups, "dropped", 0),
         a |-> Get(Get(w, "acc", EmptyDict), "attacks", 0)]

\* get_item_count(key) of a player's "items"
get_item_count(items, key) ==
    LET i_data == Get(items, key, EmptyDict)
    IN  Get(i_data, "took", Get(i_data, "taken", 0))

\* lines 95-99: the opportunity counts after one player of one game
CountOpportunities(opp, available_items) ==
    [key \in DOMAIN opp \cup Range(available_items) \cup {"rl"} |->
        Get(opp, key, 0)
        + Cardinality({i \in 1..Len(available_items) : available_items[i] = key})
        + (IF key = "rl" THEN 1 ELSE 0)]

\* lines 86-99: the entry is created if need be, the game and its
\* opportunities are counted
CountGame(db, p, available_items) ==
    LET name == Get(p, "name", "Unknown")
        old == IF name \in DOMAIN db
               THEN db[name]
               ELSE [get_stats_structure EXCEPT
                        !.team_color = Get(QUAKE_COLORS, Get(p, "top-color", 0), "")]
    IN  [old EXCEPT !.games = @ + 1,
                    !.opportunities = CountOpportunities(@, available_items)]

\* whether a per-game ratio is added (lines 128, 170, 175)
RatioDefined(denominator) == denominator > 0

AddRatio(sum, n, d) == IF RatioDefined(d) THEN FracAdd(sum, Frac(n, d)) ELSE sum

\* AddCount with a game of no attempt averaged in as a zero
AddCount_ZeroAttemptCounted(count, d) == count + 1

AddCount(count, d) == IF RatioDefined(d) THEN count + 1 ELSE count

\* AddWeapon without the test of availability
AddWeapon_Ungated(old, w_data, w_key, available_items) ==
    [k |-> old.k + w_data.k, h |-> old.h + w_data.h,
     t |-> old.t + w_data.t, d |-> old.d + w_data.d]

\* lines 158-165: a weapon's counters are added if the map has the weapon
AddWeapon(old, w_data, w_key, available_items) ==
    IF Available(w_key, available_items)
    THEN [k |-> old.k + w_data.k, h |-> old.h + w_data.h,
          t |-> old.t + w_data.t, d |-> old.d + w_data.d]
    ELSE old

\* lines 186-194: an item's pickups are added if the map has the item
AddItem(old, items, item_key, config_key, available_items) ==
    IF Available(config_key, available_items)
    THEN old + get_item_count(items, item_key)
    ELSE old

\* lines 101-194: the counters of one player of one game are added
AddCounters(e, p, available_items) ==
    LET stats == Get(p, "stats", EmptyDict)
        p_frags == Get(stats, "frags", 0)
        p_deaths == Get(stats, "deaths", 0)
        dmg_data == Get(p, "dmg", EmptyDict)
        speed_data == Get(p, "speed", EmptyDict)
        engagements == p_frags + p_deaths
        weap == Get(p, "weapons", EmptyDict)
        rl_data == get_w(weap, "rl")
        lg_data == get_w(weap, "lg")
        sg_data == get_w(weap, "sg")
        items == Get(p, "items", EmptyDict)
        lg_on == Available("lg", available_items)
    IN  [games |-> e.games,
         opportunities |-> e.opportunities,
         team_color |-> e.team_color,
         frags |-> e.frags + p_frags,
         deaths |-> e.deaths + p_deaths,
         dmg_given |-> e.dmg_given + Get(dmg_data, "given", 0),
         dmg_enemy_weapons |-> e.dmg_enemy_weapons
             + Get(dmg_data, "enemy-weapons", Get(dmg_data, "enemy_weapons", 0)),
         dmg_to_die |-> e.dmg_to_die
             + Get(dmg_data, "taken-to-die", Get(dmg_data, "taken_to_die", 0)),
         speed_sum |-> e.speed_sum + Get(speed_data, "avg", 0),
         speed_max_sum |-> e.speed_max_sum + Get(speed_data, "max", 0),
         rl |-> [k |-> e.rl.k + rl_data.k, h |-> e.rl.h + rl_data.h,
                 t |-> e.rl.t + rl_data.t, d |-> e.rl.d + rl_data.d,
                 xfer |-> e.rl.xfer + Get(p, "xferRL", 0)],
         lg |-> AddWeapon(e.lg, lg_data, "lg", available_items),
         gl |-> AddWeapon(e.gl, get_w(weap, "gl"), "gl", available_items),
         sng |-> AddWeapon(e.sng, get_w(weap, "sng"), "sng", available_items),
         ng |-> AddWeapon(e.ng, get_w(weap, "ng"), "ng", available_items),
         ssg |-> AddWeapon(e.ssg, get_w(weap, "ssg"), "ssg", available_items),
         acc_sums |->
            [lg |-> IF lg_on THEN AddRatio(e.acc_sums.lg, lg_data.h, lg_data.a)
                    ELSE e.acc_sums.lg,
             sg |-> AddRatio(e.acc_sums.sg, sg_data.h, sg_data.a),
             eff |-> AddRatio(e.acc_sums.eff, p_frags, engagements)],
         acc_counts |->
            [lg |-> IF lg_on THEN AddCount(e.acc_counts.lg, lg_data.a)
                    ELSE e.acc_counts.lg,
             sg |-> AddCount(e.acc_counts.sg, sg_data.a),
             eff |-> AddCount(e.acc_counts.eff, engagements)],
         items |->
            [q |-> AddItem(e.items.q, items, "q", "quad", available_items),
             p |-> AddItem(e.items.p, items, "p", "pent", available_items),
             r |-> AddItem(e.items.r, items, "r", "ring", available_items),
             mh |-> AddItem(e.items.mh, items, "health_100", "mh", available_items),
             ra |-> AddItem(e.items.ra, items, "ra", "ra", available_items),
             ya |-> AddItem(e.items.ya, items, "ya", "ya", available_items),
             ga |-> AddItem(e.items.ga, items, "ga", "ga", available_items)]]

Put(db, name, entry) ==
    [n \in DOMAIN db \cup {name} |-> IF n = name THEN entry ELSE db[n]]

\* the loop of lines 83-194 over the rest of a file's players: it ends at
\* the first player that raises, with everything written so far kept.
\* A player that is not an object raises at line 84; a "stats" that is not
\* an object raises at line 103, after the game was counted.
RECURSIVE ProcessPlayers(_, _, _)
ProcessPlayers(db, players, available_items) ==
    IF players = <<>> THEN db
    ELSE LET p == Head(players)
         IN  IF ~IsDict(p) THEN db
             ELSE LET name == Get(p, "name", "Unknown")
                      counted == CountGame(db, p, available_items)
                  IN  IF ~IsDict(Get(p, "stats", EmptyDict))
                      THEN Put(db, name, counted)
                      ELSE ProcessPlayers(
                               Put(db, name, AddCounters(counted, p, available_items)),
                               Tail(players), available_items)

\* process_file (lines 73-197)
process_file(data, db, config) ==
    IF "invalid" \in DOMAIN data THEN db
    ELSE IF "players" \notin DOMAIN data THEN db
    ELSE ProcessPlayers(db, data.players, AvailableItems(data, config))

Opp(e, key) == Get(e.opportunities, key, 0)
Int2Frac(n) == <<n, 1>>

\* generate_wiki_table: the values of a player's row, before they are
\* rounded and formatted (lines 220-275)
TableRow(e) ==
    LET g == e.games
        rl_opp == IF Opp(e, "rl") > 0 THEN Opp(e, "rl") ELSE g
    IN  [games |-> g,
         avg_frags |-> Frac(e.frags, g),
         avg_deaths |-> Frac(e.deaths, g),
         eff_val |-> safe_div(e.acc_sums.eff, e.acc_counts.eff),
         rl_k |-> safe_div(Int2Frac(e.rl.k), rl_opp),
         rl_xfer |-> safe_div(Int2Frac(e.rl.xfer), rl_opp),
         rl_h |-> safe_div(Int2Frac(e.rl.h), rl_opp),
         rl_t |-> safe_div(Int2Frac(e.rl.t), rl_opp),
         rl_d |-> safe_div(Int2Frac(e.rl.d), rl_opp),
         lg_k |-> safe_div(Int2Frac(e.lg.k), Opp(e, "lg")),
         lg_t |-> safe_div(Int2Frac(e.lg.t), Opp(e, "lg")),
         lg_d |-> safe_div(Int2Frac(e.lg.d), Opp(e, "lg")),
         gl_k |-> safe_div(Int2Frac(e.gl.k), Opp(e, "gl")),
         quad |-> safe_div(Int2Frac(e.items.q), Opp(e, "quad")),
         pent |-> safe_div(Int2Frac(e.items.p), Opp(e, "pent")),
         ring |-> safe_div(Int2Frac(e.items.r), Opp(e, "ring")),
         ra |-> safe_div(Int2Frac(e.items.ra), Opp(e, "ra")),
         ya |-> safe_div(Int2Frac(e.items.ya), Opp(e, "ya")),
         mh |-> safe_div(Int2Frac(e.items.mh), Opp(e, "mh")),
         lg_acc_val |-> safe_div(e.acc_sums.lg, e.acc_counts.lg),
         sg_acc_val |-> safe_div(e.acc_sums.sg, e.acc_counts.sg)]

\* the rows of the table: the players with at least one game (line 222)
generate_wiki_table(db) ==
    [name \in {n \in DOMAIN db : db[n].games # 0} |-> TableRow(db[name])]

\* ---- actions of generate_stats_for_wiki.py ----

\* main, lines 303-305: the target directory does not exist
StatsNoDir ==
    /\ pc = "st_files"
    /\ ~dir_found
    /\ pc' = "st_done"
    /\ UNCHANGED <<dir_found, report, files, maps_config, fi, valid_games, gi,
                   active_series, matches, overview_stats, all_matches, wi,
                   current_series, series_list, wiki_out, players_db>>

\* main, lines 319-321: no file at all
StatsNoFiles ==
    /\ pc = "st_files"
    /\ dir_found
    /\ Len(files) = 0
    /\ pc' = "st_done"
    /\ UNCHANGED <<dir_found, report, files, maps_config, fi, valid_games, gi, active_series,
                   matches, overview_stats, all_matches, wi, current_series,
                   series_list, wiki_out, players_db>>

\* one iteration of the loop of main (lines 323-324): process_file
ProcessFile ==
    /\ pc = "st_files"
    /\ fi <= Len(files)
    /\ players_db' = process_file(files[fi], players_db, maps_config)
    /\ fi' = fi + 1
    /\ UNCHANGED <<dir_found, report, files, maps_config, pc, valid_games, gi, active_series,
                   matches, overview_stats, all_matches, wi, current_series,
                   series_list, wiki_out>>

\* main, lines 326-333: the table is generated and written
WriteWikiTable ==
    /\ pc = "st_files"
    /\ Len(files) > 0
    /\ fi > Len(files)
    /\ report' = [written |-> TRUE, rows |-> generate_wiki_table(players_db)]
    /\ pc' = "st_done"
    /\ UNCHANGED <<dir_found, files, maps_config, fi, valid_games, gi, active_series,
                   matches, overview_stats, all_matches, wi, current_series,
                   series_list, wiki_out, players_db>>

(***************************************************************************)
(* Inputs: the documents a directory may hold.                             *)
(***************************************************************************)
Player(name, team, frags) ==
    [name |-> name, team |-> team, stats |-> [frags |-> frags, deaths |-> 1]]

Doc(at, players) ==
    [date |-> [at |-> at, tail |-> ""], map |-> sDm3, players |-> players]

\* a document without "date", and one whose "date" is not a date
UndatedDoc(players) == [map |-> sDm3, players |-> players]
BadDateDoc(date, players) == [date |-> date, map |-> sDm3, players |-> players]

\* a document with a "teams" list
TeamsDoc(at, teams, players) ==
    [date |-> [at |-> at, tail |-> ""], map |-> sDm3, teams |-> teams,
     players |-> players]

NotJson == [invalid |-> TRUE]
NotAnObject == [notdict |-> TRUE]

\* every list of at most MaxFiles documents of the pool
DocLists(pool) == UNION {[1..n -> pool] : n \in 0..MaxFiles}

\* the directory exists and holds any such list, or it does not exist
Directories(pool) ==
    {[found |-> TRUE, files |-> fs] : fs \in DocLists(pool)}
        \cup {[found |-> FALSE, files |-> <<>>]}

OverviewDocs ==
    { \* a against b: a wins, b wins, a draw, at 0, 10 min, 89 min 59 s, 90 min, 200 min
      Doc(0, <<Player("x", sA, 2), Player("y", sB, 1)>>),
      Doc(600, <<Player("y", sB, 3), Player("x", sA, 1)>>),
      Doc(5399, <<Player("x", sA, 1), Player("y", sB, 1)>>),
      Doc(5400, <<Player("x", sA, 2), Player("y", sB, 1), Player("w", sSpec, 0)>>),
      Doc(12000, <<Player("x", sA, 0), Player("y", sB, 0)>>),
      \* a against c
      Doc(300, <<Player("x", sA, 1), Player("z", sC, 2)>>),
      Doc(5000, <<Player("z", sC, 1), Player("x", sA, 1)>>),
      \* only spectators; one team and a padded "spec "; one team
      Doc(100, <<Player("w", sSpec, 0), Player("v", sSpecUpper, 0)>>),
      Doc(200, <<Player("x", sA, 1), Player("w", sSpecPadded, 0)>>),
      Doc(400, <<Player("x", sA, 1), Player("y", sA, 2)>>),
      \* not JSON; a player that is not an object
      NotJson,
      Doc(700, <<Player("x", sA, 1), NotAnObject, Player("y", sB, 1)>>),
      \* a against b with no date, with a date that does not parse, with a
      \* date that is not a string
      UndatedDoc(<<Player("x", sA, 1), Player("y", sB, 2)>>),
      BadDateDoc([garbage |-> TRUE], <<Player("x", sA, 2), Player("y", sB, 1)>>),
      BadDateDoc([notstr |-> TRUE], <<Player("x", sA, 3), Player("y", sB, 1)>>),
      \* "A" against "b" at 5 min, the document carrying the teams' scores
      TeamsDoc(300, <<[name |-> sUpperA, score |-> 5], [name |-> sB, score |-> 7]>>,
               <<Player("x", sUpperA, 2), Player("y", sB, 1)>>) }

NoReport == [written |-> FALSE]

NoStats == [clan_stats |-> EmptyDict, map_distribution |-> EmptyDict,
            total_series |-> 0, total_maps |-> 0]

InitCommon ==
    /\ fi = 1
    /\ valid_games = <<>>
    /\ gi = 1
    /\ active_series = <<>>
    /\ matches = <<>>
    /\ overview_stats = NoStats
    /\ all_matches = <<>>
    /\ wi = 1
    /\ current_series = <<>>
    /\ series_list = <<>>
    /\ wiki_out = <<>>
    /\ players_db = EmptyDict
    /\ report = NoReport

InitOverview ==
    /\ \E d \in Directories(OverviewDocs) : dir_found = d.found /\ files = d.files
    /\ maps_config = EmptyDict
    /\ pc = "ov_parse"
    /\ InitCommon

NextOverview ==
    \/ OverviewNoDir
    \/ ParseGamesFile
    \/ ParseGamesSort
    \/ GroupGame
    \/ GroupSeal
    \/ CalculateStats
    \/ GenerateHtml

SpecOverview == InitOverview /\ [][NextOverview]_vars

\* a player as the wiki fallback reads it: frags at the top level
FragPlayer(name, team, frags) == [name |-> name, team |-> team, frags |-> frags]

WikiDocs ==
    { \* a against b, scores in "teams": a wins, b wins, a draw
      TeamsDoc(0, <<[name |-> sA, score |-> 2], [name |-> sB, score |-> 1]>>, <<>>),
      TeamsDoc(600, <<[name |-> sB, score |-> 3], [name |-> sA, score |-> 1]>>, <<>>),
      TeamsDoc(5399, <<[name |-> sA, score |-> 1], [name |-> sB, score |-> 1]>>, <<>>),
      \* a against b, teams from the players, scores from their top-level frags
      Doc(5400, <<FragPlayer("x", sA, 2), FragPlayer("y", sB, 1)>>),
      Doc(12000, <<FragPlayer("y", sB, 0), FragPlayer("x", sUpperA, 0)>>),
      \* a against c, teams as plain strings, frags only under stats
      TeamsDoc(300, <<[str |-> sC], [str |-> sA]>>,
               <<Player("x", sA, 1), Player("z", sC, 2)>>),
      Doc(5000, <<FragPlayer("z", sC, 1), FragPlayer("x", sA, 2)>>),
      \* only spectators; one team and a spectator
      Doc(100, <<Player("w", sSpec, 0), Player("v", sSpec, 0)>>),
      Doc(200, <<FragPlayer("x", sA, 1), FragPlayer("w", sSpecPadded, 0)>>),
      \* not JSON; a player that is not an object
      NotJson,
      Doc(700, <<FragPlayer("x", sA, 1), NotAnObject>>),
      \* a against b with no date and with a date that is not a string; a
      \* against c with a date that does not parse
      UndatedDoc(<<FragPlayer("x", sA, 1), FragPlayer("y", sB, 2)>>),
      BadDateDoc([notstr |-> TRUE], <<FragPlayer("x", sA, 3), FragPlayer("y", sB, 1)>>),
      BadDateDoc([garbage |-> TRUE], <<FragPlayer("x", sA, 2), FragPlayer("z", sC, 1)>>) }

InitWiki ==
    /\ \E d \in Directories(WikiDocs) : dir_found = d.found /\ files = d.files
    /\ maps_config = EmptyDict
    /\ pc = "wk_load"
    /\ InitCommon

NextWiki ==
    \/ WikiNoDir
    \/ WikiNoFiles
    \/ WikiLoadFile
    \/ WikiSort
    \/ WikiGroupStep
    \/ WikiGroupEnd
    \/ WikiOutputSeries
    \/ WikiOutputEnd

SpecWiki == InitWiki /\ [][NextWiki]_vars

\* a player with the counters the accumulator reads
StatPlayer(name, team, frags, deaths, lg_hits, lg_attacks, quads) ==
    [name |-> name, team |-> team,
     stats |-> [frags |-> frags, deaths |-> deaths],
     weapons |-> [lg |-> [acc |-> [hits |-> lg_hits, attacks |-> lg_attacks],
                          kills |-> [enemy |-> lg_hits]],
                  rl |-> [kills |-> [enemy |-> frags]]],
     items |-> [q |-> [took |-> quads]]]

MapDoc(map, players) ==
    [date |-> [at |-> 0, tail |-> ""], map |-> map, players |-> players]

StatsDocs ==
    { \* a against b
      MapDoc(sDm3, <<StatPlayer("x", sA, 2, 2, 2, 4, 1), StatPlayer("y", sB, 0, 0, 0, 0, 0)>>),
      MapDoc(sDm3Upper, <<StatPlayer("x", sA, 0, 0, 0, 0, 2), StatPlayer("y", sB, 2, 0, 1, 1, 0)>>),
      MapDoc(sE1m2, <<StatPlayer("x", sA, 1, 1, 1, 2, 1), StatPlayer("z", sB, 1, 3, 0, 0, 1)>>),
      \* one team and a spectator; only spectators
      MapDoc(sDm3, <<StatPlayer("x", sA, 1, 0, 1, 1, 0), StatPlayer("w", sSpec, 0, 0, 0, 0, 0)>>),
      MapDoc(sDm3, <<StatPlayer("w", sSpec, 0, 0, 0, 0, 0), StatPlayer("v", sSpec, 0, 0, 0, 0, 0)>>),
      \* the same name twice in one game
      MapDoc(sE1m2, <<StatPlayer("x", sA, 1, 1, 0, 0, 0), StatPlayer("x", sB, 1, 1, 0, 0, 0)>>),
      \* not JSON; a player that is not an object; a stats that is not an object
      NotJson,
      MapDoc(sDm3, <<StatPlayer("x", sA, 1, 1, 1, 1, 1), NotAnObject,
                     StatPlayer("y", sB, 1, 1, 1, 1, 1)>>),
      MapDoc(sDm3, <<StatPlayer("y", sB, 1, 1, 1, 1, 1),
                     [name |-> "x", team |-> sA, stats |-> NotAnObject]>>) }

\* the tables maps_items.json may hold: none (the file is missing), and
\* two that list the items of dm3 and e1m2
MapsConfigs ==
    { EmptyDict,
      (sDm3 :> <<"quad", "ra">>) @@ (sE1m2 :> <<"lg", "rl", "mh">>),
      (sDm3 :> <<"lg", "quad">>) }

InitStats ==
    /\ \E d \in Directories(StatsDocs) : dir_found = d.found /\ files = d.files
    /\ pc = "st_files"
    /\ InitCommon
    /\ maps_config \in MapsConfigs

NextStats ==
    \/ StatsNoDir
    \/ StatsNoFiles
    \/ ProcessFile
    \/ WriteWikiTable

SpecStats == InitStats /\ [][NextStats]_vars

InitSeries == InitOverview \/ InitWiki
NextSeries == NextOverview \/ NextWiki

\* the two programs that group maps into series
SpecSeries == InitSeries /\ [][NextSeries]_vars

Init == InitOverview \/ InitWiki \/ InitStats
Next == NextOverview \/ NextWiki \/ NextStats

\* the three programs
Spec == Init /\ [][Next]_vars

(***************************************************************************)
(* Vocabulary of the properties.                                           *)
(***************************************************************************)
ThresholdSeconds == 90 * 60

\* grouping is over: the series of the overview / of the wiki generator
OverviewGrouped == pc \in {"ov_stats", "ov_html", "ov_done"} /\ dir_found
WikiGrouped == pc \in {"wk_output", "wk_done"} /\ dir_found

\* games i < j of the sorted list are of one pair, with none of that pair between
OverviewConsecutive(i, j) ==
    /\ i < j
    /\ PairKey(valid_games[i]) = PairKey(valid_games[j])
    /\ \A k \in (i + 1)..(j - 1) : PairKey(valid_games[k]) # PairKey(valid_games[i])

WikiConsecutive(i, j) ==
    /\ i < j
    /\ all_matches[i].teams = all_matches[j].teams
    /\ \A k \in (i + 1)..(j - 1) : all_matches[k].teams # all_matches[i].teams

OverviewSeriesOf(file) ==
    {m \in 1..Len(matches) : \E k \in 1..Len(matches[m].maps) : matches[m].maps[k].file = file}

WikiSeriesOf(path) ==
    {m \in 1..Len(series_list) : \E k \in 1..Len(series_list[m]) : series_list[m][k].path = path}

OverviewTogether(i, j) ==
    OverviewSeriesOf(valid_games[i].file) \cap OverviewSeriesOf(valid_games[j].file) # {}

WikiTogether(i, j) ==
    WikiSeriesOf(all_matches[i].path) \cap WikiSeriesOf(all_matches[j].path) # {}

OverviewGap(i, j) == valid_games[j].date_obj - valid_games[i].date_obj
WikiGap(i, j) == all_matches[j].date - all_matches[i].date

\* C1: two consecutive games of one team pair whose gap is exactly the
\* threshold are in separate series, and in the same series when the gap is
\* one second under it -- in the series of either program.
C1_ThresholdSeparates ==
    /\ OverviewGrouped =>
          \A i, j \in 1..Len(valid_games) :
             OverviewConsecutive(i, j) =>
                /\ OverviewGap(i, j) = ThresholdSeconds => ~OverviewTogether(i, j)
                /\ OverviewGap(i, j) = ThresholdSeconds - 1 => OverviewTogether(i, j)
    /\ WikiGrouped =>
          \A i \in 1..(Len(all_matches) - 1) :
             all_matches[i].teams = all_matches[i + 1].teams =>
                /\ WikiGap(i, i + 1) = ThresholdSeconds => ~WikiTogether(i, i + 1)
                /\ WikiGap(i, i + 1) = ThresholdSeconds - 1 => WikiTogether(i, i + 1)

\* C2: two games of a pair whose gap is below the threshold are in the same
\* series however many games of other pairs lie between them -- in the
\* series of either program.
C2_InterleavedPairsKeepSeries ==
    /\ OverviewGrouped =>
          \A i, j \in 1..Len(valid_games) :
             (OverviewConsecutive(i, j) /\ OverviewGap(i, j) < ThresholdSeconds)
                => OverviewTogether(i, j)
    /\ WikiGrouped =>
          \A i, j \in 1..Len(all_matches) :
             (WikiConsecutive(i, j) /\ WikiGap(i, j) < ThresholdSeconds)
                => WikiTogether(i, j)

\* the team identities of a record as the specification resolves them: the
\* explicit team list or else the players' teams, lower-cased and trimmed,
\* without the empty string, "spec" and "spectator"
ResolvedTeams(data) ==
    IF "invalid" \in DOMAIN data THEN {}
    ELSE LET named == IF "teams" \in DOMAIN data
                      THEN {TeamEntryName(data.teams[i]) : i \in 1..Len(data.teams)}
                      ELSE {PlayerTeam(data.players[i]) :
                               i \in {k \in 1..Len(Get(data, "players", <<>>)) :
                                         IsDict(data.players[k])}}
         IN  {Strip(Lower(t)) : t \in named} \ {<<>>, sSpec, sSpectator}

ValidRecord(data) == Cardinality(ResolvedTeams(data)) = 2

\* C3: a record that does not yield exactly two distinct scoring teams is in
\* no series, of either program.
C3_InvalidRecordInNoSeries ==
    /\ OverviewGrouped =>
          \A m \in 1..Len(matches) : \A k \in 1..Len(matches[m].maps) :
             ValidRecord(files[matches[m].maps[k].file])
    /\ WikiGrouped =>
          \A m \in 1..Len(series_list) : \A k \in 1..Len(series_list[m]) :
             ValidRecord(files[series_list[m][k].path])

\* C3, for the overview alone and for the wiki generator alone
C3_OverviewOnly == WikiGrouped \/ C3_InvalidRecordInNoSeries
C3_WikiOnly == OverviewGrouped \/ C3_InvalidRecordInNoSeries
C1_WikiOnly == OverviewGrouped \/ C1_ThresholdSeparates
C2_OverviewOnly == WikiGrouped \/ C2_InterleavedPairsKeepSeries

\* maps of a reported wiki series that slot 1 / slot 2 scored strictly more on
WikiHigher1(o) == {i \in 1..Len(o.maps) : o.maps[i].s1 > o.maps[i].s2}
WikiHigher2(o) == {i \in 1..Len(o.maps) : o.maps[i].s2 > o.maps[i].s1}

\* maps of an overview match that team1 / team2 scored strictly more on
OverviewHigher1(m) == {i \in 1..Len(m.maps) : m.maps[i].score_t1 > m.maps[i].score_t2}
OverviewHigher2(m) == {i \in 1..Len(m.maps) : m.maps[i].score_t2 > m.maps[i].score_t1}

\* the maps clan t scored strictly more on / strictly less on, in match m
ClanHigher(m, t) ==
    IF m.team1 = t THEN Cardinality(OverviewHigher1(m))
    ELSE IF m.team2 = t THEN Cardinality(OverviewHigher2(m))
    ELSE 0

ClanLower(m, t) ==
    IF m.team1 = t THEN Cardinality(OverviewHigher2(m))
    ELSE IF m.team2 = t THEN Cardinality(OverviewHigher1(m))
    ELSE 0

\* C5: the series winner is the team with strictly more map wins, and a
\* series with equally many map wins on both sides (zero each included) has
\* no winner: the wiki tag is empty and no clan is credited the series.
C5_SeriesWinnerStrict ==
    /\ \A n \in 1..Len(wiki_out) :
          LET o == wiki_out[n]
              w1 == Cardinality(WikiHigher1(o))
              w2 == Cardinality(WikiHigher2(o))
          IN  /\ w1 > w2 => o.winner = "1"
              /\ w2 > w1 => o.winner = "2"
              /\ w1 = w2 => o.winner = ""
    /\ pc = "ov_done" =>
          \A t \in DOMAIN overview_stats.clan_stats :
             overview_stats.clan_stats[t].series_won =
                Cardinality({m \in 1..Len(matches) :
                                ClanHigher(matches[m], t) > ClanLower(matches[m], t)})

\* C5's case: a reported series drawn one map each, and one drawn without any
\* map win
C5_DrawnSeriesReported ==
    /\ \E n \in 1..Len(wiki_out) :
          /\ Cardinality(WikiHigher1(wiki_out[n])) = 1
          /\ Cardinality(WikiHigher2(wiki_out[n])) = 1
          /\ wiki_out[n].winner = ""
    /\ \E n \in 1..Len(wiki_out) :
          /\ WikiHigher1(wiki_out[n]) \cup WikiHigher2(wiki_out[n]) = {}
          /\ wiki_out[n].winner = ""

\* C6: a map is credited to the team with the strictly higher score, a map
\* with equal scores has no winner tag and counts for neither team, and the
\* two tallies sum to the number of maps that were not drawn.
C6_MapWinnerStrict ==
    /\ \A n \in 1..Len(wiki_out) :
          LET o == wiki_out[n]
          IN  /\ \A i \in 1..Len(o.maps) :
                    /\ o.maps[i].s1 > o.maps[i].s2 => o.maps[i].win = "1"
                    /\ o.maps[i].s2 > o.maps[i].s1 => o.maps[i].win = "2"
                    /\ o.maps[i].s1 = o.maps[i].s2 => o.maps[i].win = ""
              /\ o.games1 = Cardinality(WikiHigher1(o))
              /\ o.games2 = Cardinality(WikiHigher2(o))
              /\ o.games1 + o.games2 =
                    Cardinality({i \in 1..Len(o.maps) : o.maps[i].s1 # o.maps[i].s2})
    /\ pc = "ov_done" =>
          \A t \in DOMAIN overview_stats.clan_stats :
             LET c == overview_stats.clan_stats[t]
             IN  /\ c.maps_won =
                       SumSeq([m \in 1..Len(matches) |-> ClanHigher(matches[m], t)])
                 /\ c.maps_lost =
                       SumSeq([m \in 1..Len(matches) |-> ClanLower(matches[m], t)])

\* C6's case: a reported series with a drawn map and a map that was won
C6_DrawnMapReported ==
    \E n \in 1..Len(wiki_out) :
       \E i, j \in 1..Len(wiki_out[n].maps) :
          /\ wiki_out[n].maps[i].s1 = wiki_out[n].maps[i].s2
          /\ wiki_out[n].maps[i].win = ""
          /\ wiki_out[n].maps[j].s1 # wiki_out[n].maps[j].s2
          /\ wiki_out[n].games1 + wiki_out[n].games2 = Len(wiki_out[n].maps) - 1

(***************************************************************************)
(* Vocabulary of the properties of the statistics accumulator.             *)
(***************************************************************************)
StatsRunning == pc \in {"st_files", "st_done"}

\* the first player of a file at which process_file raises (0: none)
FirstRaise(players) ==
    LET bad == {i \in 1..Len(players) :
                   ~IsDict(players[i]) \/ ~IsDict(Get(players[i], "stats", EmptyDict))}
    IN  IF bad = {} THEN 0 ELSE CHOOSE i \in bad : \A j \in bad : i <= j

StatsRaises(data) ==
    \/ "invalid" \in DOMAIN data
    \/ "players" \in DOMAIN data /\ FirstRaise(data.players) # 0

\* the player entries of one file whose counters were added, and those whose
\* game was counted, each with the items of the file's map
EntriesOf(data, upto) ==
    [i \in 1..upto |-> [p |-> data.players[i],
                        items |-> AvailableItems(data, maps_config)]]

AddedOf(data) ==
    IF "invalid" \in DOMAIN data \/ "players" \notin DOMAIN data THEN <<>>
    ELSE IF FirstRaise(data.players) = 0 THEN EntriesOf(data, Len(data.players))
    ELSE EntriesOf(data, FirstRaise(data.players) - 1)

CountedOf(data) ==
    IF "invalid" \in DOMAIN data \/ "players" \notin DOMAIN data THEN <<>>
    ELSE LET r == FirstRaise(data.players)
         IN  IF r = 0 THEN EntriesOf(data, Len(data.players))
             ELSE IF IsDict(data.players[r]) THEN EntriesOf(data, r)
             ELSE EntriesOf(data, r - 1)

RECURSIVE Concat(_)
Concat(ss) == IF ss = <<>> THEN <<>> ELSE Head(ss) \o Concat(Tail(ss))

\* over the files processed so far
Added == Concat([i \in 1..(fi - 1) |-> AddedOf(files[i])])
Counted == Concat([i \in 1..(fi - 1) |-> CountedOf(files[i])])

Named(entries, name) ==
    SelectSeq(entries, LAMBDA e : Get(e.p, "name", "Unknown") = name)

RECURSIVE FracSum(_)
FracSum(fs) == IF fs = <<>> THEN FracZero ELSE FracAdd(Head(fs), FracSum(Tail(fs)))

Mean(fs) ==
    IF fs = <<>> THEN FracZero ELSE Frac(FracSum(fs)[1], FracSum(fs)[2] * Len(fs))

\* the raw counters of a player entry
RawAcc(p, w_key) == Get(Get(Get(p, "weapons", EmptyDict), w_key, EmptyDict), "acc", EmptyDict)
RawHits(p, w_key) == Get(RawAcc(p, w_key), "hits", 0)
RawAttacks(p, w_key) == Get(RawAcc(p, w_key), "attacks", 0)
RawKills(p, w_key) ==
    Get(Get(Get(Get(p, "weapons", EmptyDict), w_key, EmptyDict), "kills", EmptyDict), "enemy", 0)
RawFrags(p) == Get(Get(p, "stats", EmptyDict), "frags", 0)
RawDeaths(p) == Get(Get(p, "stats", EmptyDict), "deaths", 0)
RawTook(p, item_key) ==
    LET i_data == Get(Get(p, "items", EmptyDict), item_key, EmptyDict)
    IN  Get(i_data, "took", Get(i_data, "taken", 0))

Has(e, key) == \E i \in 1..Len(e.items) : e.items[i] = key

\* C4: processing a record without exactly two resolvable teams leaves the
\* player database unchanged.
C4_InvalidRecordLeavesStats ==
    [][(pc = "st_files" /\ fi <= Len(files) /\ ~ValidRecord(files[fi]))
          => players_db' = players_db]_vars

\* C7: for every player the rocket-launcher opportunity count equals the
\* games counted, and no opportunity count exceeds the games counted.
C7_OpportunitiesWithinGames ==
    StatsRunning =>
       \A n \in DOMAIN players_db :
          /\ Opp(players_db[n], "rl") = players_db[n].games
          /\ \A key \in DOMAIN players_db[n].opportunities :
                players_db[n].opportunities[key] <= players_db[n].games

\* the per-game ratios of a player that enter an average
LgRatios(n, gated) ==
    LET es == SelectSeq(Named(Added, n),
                 LAMBDA e : RawAttacks(e.p, "lg") > 0 /\ (gated => Has(e, "lg")))
    IN  [i \in 1..Len(es) |-> Frac(RawHits(es[i].p, "lg"), RawAttacks(es[i].p, "lg"))]

SgRatios(n) ==
    LET es == SelectSeq(Named(Added, n), LAMBDA e : RawAttacks(e.p, "sg") > 0)
    IN  [i \in 1..Len(es) |-> Frac(RawHits(es[i].p, "sg"), RawAttacks(es[i].p, "sg"))]

EffRatios(n) ==
    LET es == SelectSeq(Named(Added, n), LAMBDA e : RawFrags(e.p) + RawDeaths(e.p) > 0)
    IN  [i \in 1..Len(es) |-> Frac(RawFrags(es[i].p), RawFrags(es[i].p) + RawDeaths(es[i].p))]

RatiosAre(n, lg, sg, eff) ==
    LET e == players_db[n]
    IN  /\ e.acc_sums.lg = FracSum(lg) /\ e.acc_counts.lg = Len(lg)
        /\ e.acc_sums.sg = FracSum(sg) /\ e.acc_counts.sg = Len(sg)
        /\ e.acc_sums.eff = FracSum(eff) /\ e.acc_counts.eff = Len(eff)
        /\ (pc = "st_done" /\ report.written /\ e.games # 0) =>
              /\ report.rows[n].lg_acc_val = Mean(lg)
              /\ report.rows[n].sg_acc_val = Mean(sg)
              /\ report.rows[n].eff_val = Mean(eff)

\* a player with exactly two games, one of 0 LG attacks and one of 2 hits
\* out of 4 attacks
TwoGameExample(es) ==
    /\ Len(es) = 2
    /\ \E i, j \in 1..2 :
          /\ RawAttacks(es[i].p, "lg") = 0
          /\ RawHits(es[j].p, "lg") = 2
          /\ RawAttacks(es[j].p, "lg") = 4

\* C8 as stated: a ratio is added and counted only for a game whose
\* denominator is strictly positive, so a player with one game of 0 LG
\* attacks and one game of 2 hits out of 4 attacks is reported an LG
\* accuracy of exactly 1/2.
C8_ZeroAttemptGamesExcluded ==
    StatsRunning =>
       \A n \in DOMAIN players_db :
          /\ players_db[n].acc_counts.lg <= Len(LgRatios(n, FALSE))
          /\ players_db[n].acc_counts.sg <= Len(SgRatios(n))
          /\ players_db[n].acc_counts.eff <= Len(EffRatios(n))
          /\ (pc = "st_done" /\ report.written /\ TwoGameExample(Named(Added, n))) =>
                report.rows[n].lg_acc_val = <<1, 2>>

\* C8 as amended: each ratio accumulator holds the sum and the number of the
\* per-game ratios of the games whose denominator is strictly positive, the
\* LG accumulator of those among them played on maps where LG is available;
\* the reported value is their mean (zero if there is none).
C8_RatiosOverPositiveAvailableGames ==
    StatsRunning =>
       \A n \in DOMAIN players_db :
          RatiosAre(n, LgRatios(n, TRUE), SgRatios(n), EffRatios(n))

\* C8's case: a player with one game of 0 LG attacks and one game of 2 hits
\* out of 4 attacks, both on maps with LG, is reported an LG accuracy of 1/2
C8_HalfAccuracyReported ==
    /\ pc = "st_done"
    /\ report.written
    /\ \E n \in DOMAIN players_db :
          LET es == Named(Added, n)
          IN  /\ TwoGameExample(es)
              /\ \A i \in 1..2 : Has(es[i], "lg")
              /\ report.rows[n].lg_acc_val = <<1, 2>>

GatedWeapons == {"lg", "gl", "sng", "ng", "ssg"}

\* the key of the table an item of the database is gated by, and the key
\* its pickups are read from
GatedItems ==
    { <<"q", "quad", "q">>, <<"p", "pent", "p">>, <<"r", "ring", "r">>,
      <<"mh", "mh", "health_100">>, <<"ra", "ra", "ra">>, <<"ya", "ya", "ya">>,
      <<"ga", "ga", "ga">> }

\* the averages of the table a key of the map table is the denominator of
RowsOf(key) ==
    CASE key = "lg" -> {"lg_k", "lg_t", "lg_d"}
      [] key = "gl" -> {"gl_k"}
      [] key \in {"quad", "pent", "ring", "ra", "ya", "mh"} -> {key}
      [] OTHER -> {}

\* C9: a game on a map where a gated key is unavailable adds nothing to the
\* key's totals nor to its opportunity count (the totals are the sums over
\* the games on maps that have the key, the opportunity count counts those
\* games), and a key that no map the player played has is reported an
\* average of exactly zero.
C9_UnavailableKeyAddsNothing ==
    StatsRunning =>
       \A all_added \in {Added}, all_counted \in {Counted} :
       \A n \in DOMAIN players_db :
          \A added \in {Named(all_added, n)}, counted \in {Named(all_counted, n)} :
          LET e == players_db[n]
              on(es, key) == SelectSeq(es, LAMBDA x : Has(x, key))
              times(x, key) == Cardinality({i \in 1..Len(x.items) : x.items[i] = key})
              sum(es, f(_)) == SumSeq([i \in 1..Len(es) |-> f(es[i])])
          IN  /\ \A w \in GatedWeapons :
                    \A a \in {on(added, w)}, c \in {on(counted, w)} :
                    LET kills(x) == RawKills(x.p, w)
                        hits(x) == RawHits(x.p, w)
                        opps(x) == times(x, w)
                    IN  /\ e[w].k = sum(a, kills)
                        /\ e[w].h = sum(a, hits)
                        /\ Opp(e, w) = sum(c, opps)
                        /\ c = <<>> => (Opp(e, w) = 0 /\ e[w] = NoWeapon)
              /\ \A g \in GatedItems :
                    \A a \in {on(added, g[2])}, c \in {on(counted, g[2])} :
                    LET took(x) == RawTook(x.p, g[3])
                        opps(x) == times(x, g[2])
                    IN  /\ e.items[g[1]] = sum(a, took)
                        /\ Opp(e, g[2]) = sum(c, opps)
                        /\ c = <<>> => (Opp(e, g[2]) = 0 /\ e.items[g[1]] = 0)
              /\ (pc = "st_done" /\ report.written /\ e.games # 0) =>
                    \A key \in GatedWeapons \cup {g[2] : g \in GatedItems} :
                       on(counted, key) = <<>> =>
                          \A row \in RowsOf(key) : report.rows[n][row] = FracZero

\* C9's case: a player whose record carries LG kills and quad pickups played
\* only maps that have neither, and is reported zero for both
C9_UnavailableKeyReportedZero ==
    /\ pc = "st_done"
    /\ report.written
    /\ \E n \in DOMAIN players_db :
          LET es == Named(Counted, n)
          IN  /\ es # <<>>
              /\ \A i \in 1..Len(es) : ~Has(es[i], "lg")
              /\ \E i \in 1..Len(es) : RawKills(es[i].p, "lg") > 0
              /\ report.rows[n].lg_k = FracZero
              /\ Opp(players_db[n], "lg") = 0
    /\ \E n \in DOMAIN players_db :
          LET es == Named(Counted, n)
          IN  /\ es # <<>>
              /\ \A i \in 1..Len(es) : ~Has(es[i], "quad")
              /\ \E i \in 1..Len(es) : RawTook(es[i].p, "q") > 0
              /\ report.rows[n].quad = FracZero

\* the player database after the files that do not raise
RECURSIVE StatsOfSound(_, _)
StatsOfSound(fs, db) ==
    IF fs = <<>> THEN db
    ELSE StatsOfSound(Tail(fs),
                      IF StatsRaises(Head(fs)) THEN db
                      ELSE process_file(Head(fs), db, maps_config))

\* the games of the overview after the files that do not raise
SoundGames ==
    Concat([i \in 1..(fi - 1) |->
               IF OverviewRaises(files[i]) THEN <<>> ELSE OverviewLoad(files[i], i)])

\* C10: a file that raises is skipped as a whole: the accumulators are what
\* they would be had the file not been in the input.
C10_FailingFileSkippedWhole ==
    /\ StatsRunning => players_db = StatsOfSound(SubSeq(files, 1, fi - 1), EmptyDict)
    /\ pc = "ov_parse" => valid_games = SoundGames

C10_OverviewOnly == StatsRunning \/ C10_FailingFileSkippedWhole

(***************************************************************************)
(* The order of the series.                                                *)
(***************************************************************************)
\* the start time of a series of the wiki generator: the date of its first map
WikiStart(m) == series_list[m][1].date

\* C11: the series are listed by start time ascending, whatever the order
\* they were sealed in; two games of a pair that lie more than the threshold
\* apart, with none of the pair between them, are in two separate series.
C11_SeriesSortedByStart ==
    /\ OverviewGrouped =>
          /\ \A m \in 1..(Len(matches) - 1) :
                matches[m].start_time <= matches[m + 1].start_time
          /\ \A i, j \in 1..Len(valid_games) :
                (OverviewConsecutive(i, j) /\ OverviewGap(i, j) > ThresholdSeconds)
                   => ~OverviewTogether(i, j)
    /\ WikiGrouped =>
          /\ \A m \in 1..(Len(series_list) - 1) : WikiStart(m) <= WikiStart(m + 1)
          /\ \A i, j \in 1..Len(all_matches) :
                (WikiConsecutive(i, j) /\ WikiGap(i, j) > ThresholdSeconds)
                   => ~WikiTogether(i, j)

\* a pair went dormant and came back: its two series stand around the series
\* of another pair, though its first one was sealed during the scan and the
\* two others at the end of the input
C11_ReactivatedPairListedTwice ==
    /\ pc = "ov_stats"
    /\ Len(matches) = 3
    /\ <<matches[1].team1, matches[1].team2>> = <<matches[3].team1, matches[3].team2>>
    /\ <<matches[2].team1, matches[2].team2>> # <<matches[1].team1, matches[1].team2>>
    /\ matches[1].start_time < matches[2].start_time
    /\ matches[2].start_time < matches[3].start_time
    /\ active_series[1] = matches[3]

(***************************************************************************)
(* The score of a team.                                                    *)
(***************************************************************************)
\* the entries of the document's team list that name the team and carry a score
ScoreEntries(data, team) ==
    IF "teams" \in DOMAIN data
    THEN SelectSeq(data.teams,
                   LAMBDA e : /\ TeamIsDict(e)
                              /\ "name" \in DOMAIN e
                              /\ "score" \in DOMAIN e
                              /\ Strip(Lower(e.name)) = Strip(Lower(team)))
    ELSE <<>>

\* the frags, as carried in the stats, of the players of the team
FragsOfTeam(data, team) ==
    LET ps == SelectSeq(Get(data, "players", <<>>),
                  LAMBDA q : /\ IsDict(q)
                             /\ Strip(Lower(PlayerTeam(q))) = Strip(Lower(team)))
    IN  SumSeq([i \in 1..Len(ps) |-> PlayerFrags(ps[i])])

\* the explicit score of the team when the document carries one, else the
\* sum of its players' frags
ResolvedScore(data, team) ==
    IF ScoreEntries(data, team) # <<>>
    THEN ScoreEntries(data, team)[1].score
    ELSE FragsOfTeam(data, team)

\* C12: the score of each team of a record is the explicit score of the
\* team when the document carries one, and otherwise the sum of the frags,
\* as carried in the stats, of the players of that team -- in the games of
\* the overview and in the maps the wiki generator reports.
C12_ScoreResolution ==
    /\ \A i \in 1..Len(valid_games) :
          LET g == valid_games[i]
          IN  /\ g.score_t1 = ResolvedScore(files[g.file], g.team1)
              /\ g.score_t2 = ResolvedScore(files[g.file], g.team2)
    /\ \A k \in 1..Len(wiki_out) : \A i \in 1..Len(wiki_out[k].maps) :
          LET o == wiki_out[k]
          IN  /\ o.maps[i].s1 = ResolvedScore(files[o.paths[i]], o.player1)
              /\ o.maps[i].s2 = ResolvedScore(files[o.paths[i]], o.player2)

\* C12, for the overview alone and for the wiki generator alone
C12_OverviewOnly == wiki_out # <<>> \/ C12_ScoreResolution
C12_WikiOnly == valid_games # <<>> \/ C12_ScoreResolution

(***************************************************************************)
(* The team pair.                                                          *)
(***************************************************************************)
\* name s does not sort after name t, case and surrounding blanks set aside
SortsFirst(s, t) == ~StrLess(Strip(Lower(t)), Strip(Lower(s)))

\* two records name the same two teams
SameTwoTeams(d, e) ==
    /\ ValidRecord(d)
    /\ ValidRecord(e)
    /\ ResolvedTeams(d) = ResolvedTeams(e)

\* C13: two records that name the same two teams, in whatever order, letter
\* case and surrounding blanks, have equal grouping keys, and team 1 / slot 1
\* is the team that sorts first case-insensitively -- in either program.
C13_PairKeyCanonical ==
    /\ \A i, j \in 1..Len(valid_games) :
          SameTwoTeams(files[valid_games[i].file], files[valid_games[j].file])
             => PairKey(valid_games[i]) = PairKey(valid_games[j])
    /\ \A i \in 1..Len(valid_games) :
          SortsFirst(valid_games[i].team1, valid_games[i].team2)
    /\ \A i, j \in 1..Len(all_matches) :
          SameTwoTeams(all_matches[i].data, all_matches[j].data)
             => all_matches[i].teams = all_matches[j].teams
    /\ \A k \in 1..Len(wiki_out) :
          ValidRecord(files[wiki_out[k].paths[1]])
             => SortsFirst(wiki_out[k].player1, wiki_out[k].player2)

\* C13, for the wiki generator alone
C13_WikiOnly == valid_games # <<>> \/ C13_PairKeyCanonical

(***************************************************************************)
(* The report file.                                                        *)
(***************************************************************************)
\* the batch produced nothing: no series for the overview, no player for
\* the statistics table
EmptyResultSet ==
    \/ Len(files) = 0
    \/ pc \in {"ov_html", "ov_done"} /\ matches = <<>>
    \/ pc = "st_done" /\ DOMAIN players_db = {}

\* C14: with the directory missing, or with an empty result set (no input
\* file, or no valid record), no report file is written; a report file is
\* written only after a batch that produced at least one result.
C14_NoReportWithoutResults ==
    report.written => (dir_found /\ ~EmptyResultSet)

\* C14, for a missing directory alone, and for a directory without files
\* read by the statistics program alone
C14_MissingDirectoryOnly == ~dir_found => ~report.written
C14_StatsNoFilesOnly == (pc = "st_done" /\ Len(files) = 0) => ~report.written

(***************************************************************************)
(* Records without a usable date.                                          *)
(***************************************************************************)
\* the date of the document is missing, is not a date, or is not a string
BadDate(data) ==
    /\ "invalid" \notin DOMAIN data
    /\ "date" \in DOMAIN data => "at" \notin DOMAIN data.date

\* the document, with a well-formed date in the place of its own
WithGoodDate(data) ==
    [k \in DOMAIN data \cup {"date"} |->
        IF k = "date" THEN [at |-> 0, tail |-> ""] ELSE data[k]]

OverviewLoaded == dir_found /\ pc \in {"ov_group", "ov_stats", "ov_html", "ov_done"}
WikiLoaded == dir_found /\ pc \in {"wk_group", "wk_output", "wk_done"}

\* C15: a record whose date is missing, malformed or otherwise unparseable
\* is loaded all the same (if the record with a good date is), its timestamp
\* is the minimum time, and it stands before every record with a parseable
\* date in the sorted list -- in either program.
C15_BadDateLoadedAtMinimum ==
    /\ OverviewLoaded =>
          /\ \A f \in 1..Len(files) :
                (BadDate(files[f]) /\ OverviewLoad(WithGoodDate(files[f]), f) # <<>>)
                   => \E i \in 1..Len(valid_games) :
                         /\ valid_games[i].file = f
                         /\ valid_games[i].date_obj = DATETIME_MIN
          /\ \A i, j \in 1..Len(valid_games) :
                (BadDate(files[valid_games[i].file])
                    /\ ~BadDate(files[valid_games[j].file])) => i < j
    /\ WikiLoaded =>
          /\ \A f \in 1..Len(files) :
                (BadDate(files[f]) /\ load_match_metadata(WithGoodDate(files[f]), f) # <<>>)
                   => \E i \in 1..Len(all_matches) :
                         /\ all_matches[i].path = f
                         /\ all_matches[i].date = DATETIME_MIN
          /\ \A i, j \in 1..Len(all_matches) :
                (BadDate(all_matches[i].data) /\ ~BadDate(all_matches[j].data)) => i < j

\* C15, for the wiki generator alone; for the dates that are strings alone
C15_WikiOnly == OverviewLoaded \/ C15_BadDateLoadedAtMinimum
C15_MalformedStringOnly ==
    (\A f \in 1..Len(files) :
        BadDate(files[f]) => "garbage" \in DOMAIN Get(files[f], "date", EmptyDict))
       => C15_BadDateLoadedAtMinimum

(***************************************************************************)
(* The two groupers as functions of the list of files.                     *)
(***************************************************************************)
\* parse_games: every file is loaded, the games are sorted by date
parse_games(fs) ==
    LET loaded == Concat([i \in 1..Len(fs) |-> OverviewLoad(fs[i], i)])
    IN  SortByInt(loaded, [i \in 1..Len(loaded) |-> loaded[i].date_obj])

RECURSIVE GroupFrom(_, _, _)
GroupFrom(ms, act, games) ==
    IF games = <<>> THEN SealAndSort(ms, act)
    ELSE LET r == GroupOne(ms, act, Head(games))
         IN  GroupFrom(r.matches, r.active_series, Tail(games))

group_into_matches(sorted_games) == GroupFrom(<<>>, <<>>, sorted_games)

\* main of the wiki generator, lines 166-173: load and sort
WikiLoadAll(fs) ==
    LET loaded == Concat([i \in 1..Len(fs) |-> load_match_metadata(fs[i], i)])
    IN  SortByInt(loaded, [i \in 1..Len(loaded) |-> loaded[i].date])

RECURSIVE WikiGroupFrom(_, _, _)
WikiGroupFrom(sl, cs, rest) ==
    IF rest = <<>> THEN Append(sl, cs)
    ELSE LET r == WikiGroupOne(sl, cs, Head(rest))
         IN  WikiGroupFrom(r.series_list, r.current_series, Tail(rest))

\* main of the wiki generator, lines 175-192: the series of a sorted list
WikiGroupAll(sorted) ==
    IF sorted = <<>> THEN <<>>
    ELSE WikiGroupFrom(<<>>, <<sorted[1]>>, Tail(sorted))

\* Directories of records that both the code and the validity rule keep:
\* two pairs, games of one evening, two games at the same time, games
\* without a usable date.
OverviewArrivalDocs ==
    { Doc(0, <<Player("x", sA, 2), Player("y", sB, 1)>>),
      Doc(600, <<Player("y", sB, 3), Player("x", sA, 1)>>),
      Doc(5400, <<Player("x", sA, 2), Player("y", sB, 1), Player("w", sSpec, 0)>>),
      Doc(12000, <<Player("x", sA, 0), Player("y", sB, 0)>>),
      Doc(300, <<Player("x", sA, 1), Player("z", sC, 2)>>),
      TeamsDoc(300, <<[name |-> sUpperA, score |-> 5], [name |-> sB, score |-> 7]>>,
               <<Player("x", sUpperA, 2), Player("y", sB, 1)>>),
      UndatedDoc(<<Player("x", sA, 1), Player("y", sB, 2)>>),
      BadDateDoc([garbage |-> TRUE], <<Player("x", sA, 2), Player("y", sB, 1)>>) }

WikiArrivalDocs ==
    { TeamsDoc(0, <<[name |-> sA, score |-> 2], [name |-> sB, score |-> 1]>>, <<>>),
      TeamsDoc(600, <<[name |-> sB, score |-> 3], [name |-> sA, score |-> 1]>>, <<>>),
      Doc(5400, <<FragPlayer("x", sA, 2), FragPlayer("y", sB, 1)>>),
      Doc(12000, <<FragPlayer("y", sB, 0), FragPlayer("x", sUpperA, 0)>>),
      TeamsDoc(300, <<[str |-> sC], [str |-> sA]>>,
               <<Player("x", sA, 1), Player("z", sC, 2)>>),
      Doc(5000, <<FragPlayer("z", sC, 1), FragPlayer("x", sA, 2)>>),
      UndatedDoc(<<FragPlayer("x", sA, 1), FragPlayer("y", sB, 2)>>),
      BadDateDoc([garbage |-> TRUE], <<FragPlayer("x", sA, 2), FragPlayer("z", sC, 1)>>) }

InitArrival ==
    /\ \/ /\ \E d \in Directories(OverviewArrivalDocs) :
                dir_found = d.found /\ files = d.files
          /\ pc = "ov_parse"
       \/ /\ \E d \in Directories(WikiArrivalDocs) :
                dir_found = d.found /\ files = d.files
          /\ pc = "wk_load"
    /\ maps_config = EmptyDict
    /\ InitCommon

\* the two programs that group maps into series, on these directories
SpecArrival == InitArrival /\ [][NextSeries]_vars

\* the orders the files of a directory may be listed in
Orders(n) == {p \in [1..n -> 1..n] : Range(p) = 1..n}
Reordered(fs, p) == [i \in 1..Len(fs) |-> fs[p[i]]]

\* the series of the files listed in order p: each series as the set of its
\* files (named by their place in fs), the series in the order they are listed
OverviewSeriesIn(fs, p) ==
    LET ms == group_into_matches(parse_games(Reordered(fs, p)))
    IN  [m \in 1..Len(ms) |-> {p[ms[m].maps[k].file] : k \in 1..Len(ms[m].maps)}]

WikiSeriesIn(fs, p) ==
    LET sl == WikiGroupAll(WikiLoadAll(Reordered(fs, p)))
    IN  [m \in 1..Len(sl) |-> {p[sl[m][k].path] : k \in 1..Len(sl[m])}]

AsListed(n) == [i \in 1..n |-> i]

\* the grouping of the overview / of the wiki generator has just ended
OverviewJustGrouped == dir_found /\ pc = "ov_stats"
WikiJustGrouped == dir_found /\ pc = "wk_output" /\ wi = 1

\* the run gave what the functions give: the same input, the same series
SameInputSameSeries ==
    /\ OverviewJustGrouped => matches = group_into_matches(parse_games(files))
    /\ WikiJustGrouped => series_list = WikiGroupAll(WikiLoadAll(files))

\* C16 as stated: whatever the order the files are loaded in, records with
\* equal timestamps included, the series have the same boundaries and stand
\* in the same order; and the same input gives the same series.
C16_ArrivalOrderIrrelevant ==
    /\ SameInputSameSeries
    /\ OverviewJustGrouped =>
          \A p \in Orders(Len(files)) :
             OverviewSeriesIn(files, p) = OverviewSeriesIn(files, AsListed(Len(files)))
    /\ WikiJustGrouped =>
          \A p \in Orders(Len(files)) :
             WikiSeriesIn(files, p) = WikiSeriesIn(files, AsListed(Len(files)))

\* no two loaded records have the same timestamp
OverviewDistinctTimes ==
    \A i, j \in 1..Len(valid_games) :
       i # j => valid_games[i].date_obj # valid_games[j].date_obj
WikiDistinctTimes ==
    \A i, j \in 1..Len(all_matches) :
       i # j => all_matches[i].date # all_matches[j].date

\* C16, amended: the same, for records no two of which have the same
\* timestamp.
C16_DistinctTimesArrivalOrderIrrelevant ==
    /\ SameInputSameSeries
    /\ (OverviewJustGrouped /\ OverviewDistinctTimes) =>
          \A p \in Orders(Len(files)) :
             OverviewSeriesIn(files, p) = OverviewSeriesIn(files, AsListed(Len(files)))
    /\ (WikiJustGrouped /\ WikiDistinctTimes) =>
          \A p \in Orders(Len(files)) :
             WikiSeriesIn(files, p) = WikiSeriesIn(files, AsListed(Len(files)))

\* three games loaded latest first, no two at the same time, were sorted
\* and grouped into more than one series
C16_SortedOutOfArrivalOrder ==
    /\ OverviewJustGrouped
    /\ OverviewDistinctTimes
    /\ Len(valid_games) = 3
    /\ valid_games[1].file = 3
    /\ valid_games[3].file = 1
    /\ Len(matches) = 2

\* C16 as stated, for the overview alone and for the wiki generator alone
C16_OverviewOnly == WikiJustGrouped \/ C16_ArrivalOrderIrrelevant
C16_WikiOnly == OverviewJustGrouped \/ C16_ArrivalOrderIrrelevant

(***************************************************************************)
(* The series as a partition of the games.                                 *)
(***************************************************************************)
\* the places (series, map) a game of the overview / of the wiki generator
\* stands at
OverviewPlaces(game) ==
    {<<m, k>> \in (1..Len(matches)) \X (1..Len(valid_games)) :
        k <= Len(matches[m].maps) /\ matches[m].maps[k] = game}

WikiPlaces(meta) ==
    {<<m, k>> \in (1..Len(series_list)) \X (1..Len(all_matches)) :
        k <= Len(series_list[m]) /\ series_list[m][k] = meta}

\* C17: once the scan is over and every active series sealed, each game
\* handed to the grouper is in exactly one series, once; no series is empty;
\* the games of a series share its team pair; and the start time of a series
\* is the timestamp of its first map -- in either program.
C17_SeriesPartitionGames ==
    /\ OverviewGrouped =>
          /\ \A i \in 1..Len(valid_games) :
                Cardinality(OverviewPlaces(valid_games[i])) = 1
          /\ SumSeq([m \in 1..Len(matches) |-> Len(matches[m].maps)]) = Len(valid_games)
          /\ \A m \in 1..Len(matches) :
                /\ Len(matches[m].maps) > 0
                /\ \A k \in 1..Len(matches[m].maps) :
                      PairKey(matches[m].maps[k]) = PairKey(matches[m])
                /\ matches[m].start_time = matches[m].maps[1].date_obj
    /\ WikiGrouped =>
          /\ \A i \in 1..Len(all_matches) :
                Cardinality(WikiPlaces(all_matches[i])) = 1
          /\ SumSeq([m \in 1..Len(series_list) |-> Len(series_list[m])]) = Len(all_matches)
          /\ \A m \in 1..Len(series_list) :
                /\ Len(series_list[m]) > 0
                /\ \A k \in 1..Len(series_list[m]) :
                      series_list[m][k].teams = series_list[m][1].teams

\* three games were grouped into a series of two maps and a series of one,
\* by the overview and by the wiki generator
C17_ThreeGamesTwoSeries ==
    \/ /\ OverviewGrouped
       /\ Len(valid_games) = 3
       /\ Len(matches) = 2
       /\ Len(matches[1].maps) = 2
       /\ pc = "ov_done"
    \/ /\ WikiGrouped
       /\ Len(all_matches) = 3
       /\ Len(series_list) = 2
       /\ Len(series_list[2]) = 2
       /\ pc = "wk_done"

(***************************************************************************)
(* The games counted for a player.                                         *)
(***************************************************************************)
\* the files processed so far in which the name was counted
GamesOf(name) ==
    {f \in 1..(fi - 1) : Named(CountedOf(files[f]), name) # <<>>}

\* C18: for every player name, the games counted are as many as the games
\* in which the name appears: one per game, also when the name occurs more
\* than once in the player list of one game.
C18_GamesCountedOncePerGame ==
    StatsRunning =>
       \A name \in DOMAIN players_db :
          players_db[name].games = Cardinality(GamesOf(name))

\* no file processed so far lists a name twice
NoNameTwice ==
    \A f \in 1..(fi - 1) :
       LET es == CountedOf(files[f])
       IN  \A i, j \in 1..Len(es) :
              i # j => Get(es[i].p, "name", "Unknown") # Get(es[j].p, "name", "Unknown")

\* C18, for files that list no name twice alone
C18_DistinctNamesOnly == NoNameTwice => C18_GamesCountedOncePerGame

(***************************************************************************)
(* The clan statistics of the overview.                                    *)
(***************************************************************************)
\* the sum of f over the keys of a dict
RECURSIVE SumOver(_, _)
SumOver(d, keys) ==
    IF keys = {} THEN 0
    ELSE LET k == CHOOSE x \in keys : TRUE
         IN  d[k] + SumOver(d, keys \ {k})

ClanTotal(field) ==
    LET cs == overview_stats.clan_stats
    IN  SumOver([t \in DOMAIN cs |-> cs[t][field]], DOMAIN cs)

StatsComputed == dir_found /\ pc \in {"ov_html", "ov_done"}

\* C19: the statistics calculate_stats computes from the series are
\* conserved: total_maps is the sum of the map-distribution counts and the
\* sum of the series lengths; for every clan maps_won + maps_lost <=
\* maps_played and series_won <= series_played; over all clans maps_won
\* sums to what maps_lost sums to, series_played to twice total_series, and
\* series_won to at most total_series.
C19_ClanStatsConserved ==
    StatsComputed =>
       LET st == overview_stats
           cs == st.clan_stats
       IN  /\ st.total_maps = SumOver(st.map_distribution, DOMAIN st.map_distribution)
           /\ st.total_maps = SumSeq([m \in 1..Len(matches) |-> Len(matches[m].maps)])
           /\ st.total_series = Len(matches)
           /\ \A t \in DOMAIN cs :
                 /\ cs[t].maps_won + cs[t].maps_lost <= cs[t].maps_played
                 /\ cs[t].series_won <= cs[t].series_played
           /\ ClanTotal("maps_won") = ClanTotal("maps_lost")
           /\ ClanTotal("series_played") = 2 * st.total_series
           /\ ClanTotal("series_won") <= st.total_series

\* statistics of two series of three clans, with a drawn map and a drawn
\* series among them
C19_DrawsAmongThreeClans ==
    /\ StatsComputed
    /\ overview_stats.total_series = 2
    /\ overview_stats.total_maps = 3
    /\ Cardinality(DOMAIN overview_stats.clan_stats) = 3
    /\ ClanTotal("maps_won") < overview_stats.total_maps
    /\ ClanTotal("series_won") < overview_stats.total_series

====
